---- MODULE Spec2Model ----
(***************************************************************************)
(* Model of zoc's core InternalState (core/src/internal_state.rs): the     *)
(* identity-keyed mapping of units and the transition apply_event makes    *)
(* for each CoreEvent variant.  A failed assert!/expect (a panic) stops    *)
(* the handler where it stands: the mapping keeps what the handler had     *)
(* already written and no further event is applied to the instance.        *)
(*                                                                         *)
(* The claims are stated over After(ev), the outcome apply_event has for   *)
(* an event ev in the current state, for every event of the event sets.    *)
(*                                                                         *)
(* Option<T> is modelled as a sequence: None is << >>, Some(v) is <<v>>.   *)
(* The integer fields are Rust machine integers; all values stay within    *)
(* the morale bounds below, far from any overflow.                         *)
(***************************************************************************)
EXTENDS Integers, Sequences, FiniteSets, TLC

VARIABLES units, panicked, info

vars == <<units, panicked, info>>

(* ------------------------------ bounds --------------------------------- *)

\* Largest total cost of a path handed to Move.
MaxCost == 2
\* Largest number of troops one AttackUnit kills.
MaxKilled == 1
\* Morale window explored, around the morale a unit is added with: an event
\* is not offered when it would take some unit's morale outside of it (morale
\* moves by 10 per refresh and by the suppression of an attack).
MaxMoraleGain == 10
MaxMoraleLoss == 0

UnitIds == {1, 2}
PlayerIds == {0, 1, 2}
Positions == {<<0, 0>>, <<1, 0>>}
Suppressions == {0, 10}
MoveModes == {"Fast", "Hunt"}
FireModes == {"Active", "Reactive"}

\* The morale add_unit gives a new unit.
InitialMorale == 100

(* ------------------------------ Option --------------------------------- *)

None == << >>
Some(v) == <<v>>
IsSome(o) == o # << >>
Unwrap(o) == o[1]
Option(S) == {None} \cup {Some(v) : v \in S}

(* ------------------------ unit type catalog ---------------------------- *)

\* db.unit_type(type_id): the read-only template of a unit type.
TypeIds == {"soldier", "truck"}
unit_type(type_id) ==
    IF type_id = "soldier"
    THEN [move_points |-> 2, attack_points |-> 1, reactive_attack_points |-> 1,
          count |-> 2, is_transporter |-> FALSE]
    ELSE [move_points |-> 1, attack_points |-> 0, reactive_attack_points |-> 0,
          count |-> 1, is_transporter |-> TRUE]

\* The units the rules layer issues identities for: who owns each identity and
\* of which type it is.  Position and passenger reference of a UnitInfo vary.
Roster ==
    {[unit_id |-> 1, player_id |-> 0, type_id |-> "soldier"],
     [unit_id |-> 2, player_id |-> 1, type_id |-> "truck"]}

UnitInfos ==
    {[unit_id |-> r.unit_id, pos |-> p, player_id |-> r.player_id,
      type_id |-> r.type_id, passanger_id |-> q] :
        r \in Roster, p \in Positions, q \in Option(UnitIds)}

(* --------------------------- map helpers ------------------------------- *)

\* HashMap::insert / HashMap::remove on the units mapping.
Insert(us, id, u) == [x \in (DOMAIN us) \cup {id} |-> IF x = id THEN u ELSE us[x]]
Remove(us, id) == [x \in (DOMAIN us) \ {id} |-> us[x]]

Ok(us) == [ok |-> TRUE, units |-> us]
Panic(us) == [ok |-> FALSE, units |-> us]

(* ------------------------- convert_ap / refresh ------------------------ *)

\* convert_ap folding the active points without resetting them.
convert_ap_KeepActive(us, player_id) ==
    [id \in DOMAIN us |->
        IF us[id].player_id = player_id
        THEN [us[id] EXCEPT
                !.reactive_attack_points =
                    IF IsSome(@) THEN Some(Unwrap(@) + us[id].attack_points) ELSE @]
        ELSE us[id]]

convert_ap(us, player_id) ==
    [id \in DOMAIN us |->
        IF us[id].player_id = player_id
        THEN [us[id] EXCEPT
                !.reactive_attack_points =
                    IF IsSome(@) THEN Some(Unwrap(@) + us[id].attack_points) ELSE @,
                !.attack_points = 0]
        ELSE us[id]]

\* refresh_units capping morale at its initial value.
refresh_units_Capped(us, player_id) ==
    [id \in DOMAIN us |->
        IF us[id].player_id = player_id
        THEN LET t == unit_type(us[id].type_id) IN
             [us[id] EXCEPT
                !.move_points = t.move_points,
                !.attack_points = t.attack_points,
                !.reactive_attack_points =
                    IF IsSome(@) THEN Some(t.reactive_attack_points) ELSE @,
                !.morale = IF @ + 10 > InitialMorale THEN InitialMorale ELSE @ + 10]
        ELSE us[id]]

\* refresh_units adding the template move_points to what is left.
refresh_units_Accumulate(us, player_id) ==
    [id \in DOMAIN us |->
        IF us[id].player_id = player_id
        THEN LET t == unit_type(us[id].type_id) IN
             [us[id] EXCEPT
                !.move_points = @ + t.move_points,
                !.attack_points = t.attack_points,
                !.reactive_attack_points =
                    IF IsSome(@) THEN Some(t.reactive_attack_points) ELSE @,
                !.morale = @ + 10]
        ELSE us[id]]

refresh_units(us, player_id) ==
    [id \in DOMAIN us |->
        IF us[id].player_id = player_id
        THEN LET t == unit_type(us[id].type_id) IN
             [us[id] EXCEPT
                !.move_points = t.move_points,
                !.attack_points = t.attack_points,
                !.reactive_attack_points =
                    IF IsSome(@) THEN Some(t.reactive_attack_points) ELSE @,
                !.morale = @ + 10]
        ELSE us[id]]

(* ------------------------------ add_unit ------------------------------- *)

NewUnit(unit_info, info_level) ==
    LET t == unit_type(unit_info.type_id) IN
    [id |-> unit_info.unit_id,
     pos |-> unit_info.pos,
     player_id |-> unit_info.player_id,
     type_id |-> unit_info.type_id,
     move_points |-> t.move_points,
     attack_points |-> t.attack_points,
     reactive_attack_points |->
        IF info_level = "Full" THEN Some(t.reactive_attack_points) ELSE None,
     count |-> t.count,
     morale |-> InitialMorale,
     passanger_id |->
        IF info_level = "Full" THEN unit_info.passanger_id ELSE None]

\* add_unit without the assert: an existing identity is overwritten.
add_unit_Overwrite(us, unit_info, info_level) ==
    Ok(Insert(us, unit_info.unit_id, NewUnit(unit_info, info_level)))

add_unit(us, unit_info, info_level) ==
    IF unit_info.unit_id \in DOMAIN us
    THEN Panic(us)
    ELSE Ok(Insert(us, unit_info.unit_id, NewUnit(unit_info, info_level)))

(* --------------------------- apply_event arms -------------------------- *)

\* MoveCost charging every mode like Fast.
MoveCost_AlwaysSingle(path, mode) ==
    path.total_cost

MoveCost(path, mode) ==
    IF mode = "Fast" THEN path.total_cost ELSE path.total_cost * 2

\* ApplyMove without the assert that follows the deduction.
ApplyMove_NoPostAssert(us, ev) ==
    IF ev.unit_id \notin DOMAIN us
    THEN Panic(us)
    ELSE LET moved == [us EXCEPT ![ev.unit_id].pos = ev.path.destination] IN
         IF ~(moved[ev.unit_id].move_points > 0)
         THEN Panic(moved)
         ELSE Ok([moved EXCEPT ![ev.unit_id].move_points =
                                   @ - MoveCost(ev.path, ev.mode)])

\* ApplyMove taking the passenger of a moving transporter along.
ApplyMove_PassengerFollows(us, ev) ==
    IF ev.unit_id \notin DOMAIN us
    THEN Panic(us)
    ELSE LET moved == [us EXCEPT ![ev.unit_id].pos = ev.path.destination] IN
         IF ~(moved[ev.unit_id].move_points > 0)
         THEN Panic(moved)
         ELSE LET carried ==
                      IF /\ unit_type(moved[ev.unit_id].type_id).is_transporter
                         /\ IsSome(moved[ev.unit_id].passanger_id)
                         /\ Unwrap(moved[ev.unit_id].passanger_id) \in DOMAIN moved
                      THEN [moved EXCEPT
                              ![Unwrap(moved[ev.unit_id].passanger_id)].pos =
                                  ev.path.destination]
                      ELSE moved
                  paid == [carried EXCEPT ![ev.unit_id].move_points =
                                              @ - MoveCost(ev.path, ev.mode)] IN
              IF ~(paid[ev.unit_id].move_points >= 0)
              THEN Panic(paid)
              ELSE Ok(paid)

ApplyMove(us, ev) ==
    IF ev.unit_id \notin DOMAIN us
    THEN Panic(us)
    ELSE LET moved == [us EXCEPT ![ev.unit_id].pos = ev.path.destination] IN
         IF ~(moved[ev.unit_id].move_points > 0)
         THEN Panic(moved)
         ELSE LET paid == [moved EXCEPT ![ev.unit_id].move_points =
                                            @ - MoveCost(ev.path, ev.mode)] IN
              IF ~(paid[ev.unit_id].move_points >= 0)
              THEN Panic(paid)
              ELSE Ok(paid)

\* EndTurn refreshing the outgoing player and converting the incoming one.
ApplyEndTurn_Swapped(us, ev) ==
    Ok(convert_ap(refresh_units(us, ev.old_id), ev.new_id))

ApplyEndTurn(us, ev) ==
    Ok(convert_ap(refresh_units(us, ev.new_id), ev.old_id))

\* HitDefender removing the defender only below zero troops.
HitDefender_BelowZero(us, ev) ==
    LET hit == [us EXCEPT
                  ![ev.defender_id].count = @ - ev.killed,
                  ![ev.defender_id].morale = @ - ev.suppression,
                  ![ev.defender_id].move_points =
                      IF ev.remove_move_points THEN 0 ELSE @] IN
    IF hit[ev.defender_id].count < 0
    THEN Remove(hit, ev.defender_id)
    ELSE hit

\* HitDefender zeroing the defender's move_points whatever the flag.
HitDefender_AlwaysPin(us, ev) ==
    LET hit == [us EXCEPT
                  ![ev.defender_id].count = @ - ev.killed,
                  ![ev.defender_id].morale = @ - ev.suppression,
                  ![ev.defender_id].move_points = 0] IN
    IF hit[ev.defender_id].count <= 0
    THEN Remove(hit, ev.defender_id)
    ELSE hit

\* The defender's part of AttackUnit: losses, then removal at count <= 0.
HitDefender(us, ev) ==
    LET hit == [us EXCEPT
                  ![ev.defender_id].count = @ - ev.killed,
                  ![ev.defender_id].morale = @ - ev.suppression,
                  ![ev.defender_id].move_points =
                      IF ev.remove_move_points THEN 0 ELSE @] IN
    IF hit[ev.defender_id].count <= 0
    THEN Remove(hit, ev.defender_id)
    ELSE hit

\* DebitAttacker clamping at zero instead of asserting.
DebitAttacker_Clamp(us, attacker_id, mode) ==
    IF mode = "Active"
    THEN IF ~(us[attacker_id].attack_points >= 1)
         THEN Ok(us)
         ELSE Ok([us EXCEPT ![attacker_id].attack_points = @ - 1])
    ELSE IF IsSome(us[attacker_id].reactive_attack_points)
         THEN IF ~(Unwrap(us[attacker_id].reactive_attack_points) >= 1)
              THEN Ok(us)
              ELSE Ok([us EXCEPT ![attacker_id].reactive_attack_points =
                                      Some(Unwrap(@) - 1)])
         ELSE Ok(us)

\* The attacker's part of AttackUnit, for an attacker found in the mapping.
DebitAttacker(us, attacker_id, mode) ==
    IF mode = "Active"
    THEN IF ~(us[attacker_id].attack_points >= 1)
         THEN Panic(us)
         ELSE Ok([us EXCEPT ![attacker_id].attack_points = @ - 1])
    ELSE IF IsSome(us[attacker_id].reactive_attack_points)
         THEN IF ~(Unwrap(us[attacker_id].reactive_attack_points) >= 1)
              THEN Panic(us)
              ELSE Ok([us EXCEPT ![attacker_id].reactive_attack_points =
                                      Some(Unwrap(@) - 1)])
         ELSE Ok(us)

\* ApplyAttackUnit debiting the attacker as in Active mode whatever the mode.
ApplyAttackUnit_ActiveOnly(us, ev) ==
    IF ev.defender_id \notin DOMAIN us
    THEN Panic(us)
    ELSE LET after == HitDefender(us, ev) IN
         IF ~IsSome(ev.attacker_id)
         THEN Ok(after)
         ELSE IF Unwrap(ev.attacker_id) \in DOMAIN after
              THEN DebitAttacker(after, Unwrap(ev.attacker_id), "Active")
              ELSE Ok(after)

ApplyAttackUnit(us, ev) ==
    IF ev.defender_id \notin DOMAIN us
    THEN Panic(us)
    ELSE LET after == HitDefender(us, ev) IN
         IF ~IsSome(ev.attacker_id)
         THEN Ok(after)
         ELSE IF Unwrap(ev.attacker_id) \in DOMAIN after
              THEN DebitAttacker(after, Unwrap(ev.attacker_id), ev.mode)
              ELSE Ok(after)

\* HideUnit without the assert: hiding an unknown identity is a no-op.
ApplyHideUnit_Lenient(us, ev) ==
    Ok(Remove(us, ev.unit_id))

ApplyHideUnit(us, ev) ==
    IF ev.unit_id \notin DOMAIN us
    THEN Panic(us)
    ELSE Ok(Remove(us, ev.unit_id))

\* LoadUnit that leaves the passenger where it stood.
ApplyLoadUnit_NoPin(us, ev) ==
    IF ev.transporter_id \notin DOMAIN us
    THEN Panic(us)
    ELSE LET linked == [us EXCEPT ![ev.transporter_id].passanger_id =
                                      Some(ev.passanger_id)] IN
         IF ev.passanger_id \notin DOMAIN linked
         THEN Panic(linked)
         ELSE Ok([linked EXCEPT ![ev.passanger_id].move_points = 0])

\* LoadUnit taking the passenger's record out of the mapping.
ApplyLoadUnit_DropPassenger(us, ev) ==
    IF ev.transporter_id \notin DOMAIN us
    THEN Panic(us)
    ELSE LET linked == [us EXCEPT ![ev.transporter_id].passanger_id =
                                      Some(ev.passanger_id)] IN
         IF ev.passanger_id \notin DOMAIN linked
         THEN Panic(linked)
         ELSE Ok(Remove(linked, ev.passanger_id))

ApplyLoadUnit(us, ev) ==
    IF ev.transporter_id \notin DOMAIN us
    THEN Panic(us)
    ELSE LET linked == [us EXCEPT ![ev.transporter_id].passanger_id =
                                      Some(ev.passanger_id)] IN
         IF ev.passanger_id \notin DOMAIN linked
         THEN Panic(linked)
         ELSE Ok([linked EXCEPT
                    ![ev.passanger_id].pos = linked[ev.transporter_id].pos,
                    ![ev.passanger_id].move_points = 0])

\* ApplyUnloadUnit inserting an absent passenger under full information.
ApplyUnloadUnit_AddFull(us, ev) ==
    IF ev.transporter_id \notin DOMAIN us
    THEN Panic(us)
    ELSE LET cleared == [us EXCEPT ![ev.transporter_id].passanger_id = None] IN
         IF ev.unit_info.unit_id \in DOMAIN cleared
         THEN Ok([cleared EXCEPT ![ev.unit_info.unit_id].pos = ev.unit_info.pos])
         ELSE add_unit(cleared, ev.unit_info, "Full")

ApplyUnloadUnit(us, ev) ==
    IF ev.transporter_id \notin DOMAIN us
    THEN Panic(us)
    ELSE LET cleared == [us EXCEPT ![ev.transporter_id].passanger_id = None] IN
         IF ev.unit_info.unit_id \in DOMAIN cleared
         THEN Ok([cleared EXCEPT ![ev.unit_info.unit_id].pos = ev.unit_info.pos])
         ELSE add_unit(cleared, ev.unit_info, "Partial")

apply_event(us, ev) ==
    CASE ev.kind = "Move" -> ApplyMove(us, ev)
      [] ev.kind = "EndTurn" -> ApplyEndTurn(us, ev)
      [] ev.kind = "CreateUnit" -> add_unit(us, ev.unit_info, "Full")
      [] ev.kind = "AttackUnit" -> ApplyAttackUnit(us, ev)
      [] ev.kind = "ShowUnit" -> add_unit(us, ev.unit_info, "Partial")
      [] ev.kind = "HideUnit" -> ApplyHideUnit(us, ev)
      [] ev.kind = "LoadUnit" -> ApplyLoadUnit(us, ev)
      [] ev.kind = "UnloadUnit" -> ApplyUnloadUnit(us, ev)

(* ------------------------------ events -------------------------------- *)

MoveEvents ==
    {[kind |-> "Move", unit_id |-> unit_id,
      path |-> [destination |-> dest, total_cost |-> cost], mode |-> mode] :
        unit_id \in UnitIds, dest \in Positions, cost \in 0..MaxCost,
        mode \in MoveModes}

EndTurnEvents ==
    {[kind |-> "EndTurn", new_id |-> new_id, old_id |-> old_id] :
        new_id \in PlayerIds, old_id \in PlayerIds}

CreateUnitEvents ==
    {[kind |-> "CreateUnit", unit_info |-> unit_info] : unit_info \in UnitInfos}

AttackUnitEvents ==
    [kind : {"AttackUnit"}, attacker_id : Option(UnitIds), defender_id : UnitIds,
     mode : FireModes, killed : 0..MaxKilled, suppression : Suppressions,
     remove_move_points : BOOLEAN]

ShowUnitEvents ==
    {[kind |-> "ShowUnit", unit_info |-> unit_info] : unit_info \in UnitInfos}

HideUnitEvents ==
    {[kind |-> "HideUnit", unit_id |-> unit_id] : unit_id \in UnitIds}

LoadUnitEvents ==
    {[kind |-> "LoadUnit", passanger_id |-> passanger_id,
      transporter_id |-> transporter_id] :
        passanger_id \in UnitIds, transporter_id \in UnitIds}

UnloadUnitEvents ==
    {[kind |-> "UnloadUnit", transporter_id |-> transporter_id,
      unit_info |-> unit_info] :
        transporter_id \in UnitIds, unit_info \in UnitInfos}

(* ------------------------------ actions -------------------------------- *)

\* The info_level add_unit was called with, kept per identity while the
\* identity stays in the mapping (the Unit record itself does not store it).
InfoAfter(us2, ev) ==
    [id \in DOMAIN us2 |->
        IF id \in DOMAIN units THEN info[id]
        ELSE IF ev.kind = "CreateUnit" THEN "Full" ELSE "Partial"]

\* Morale stays inside the explored window.
InWindow(us) ==
    \A id \in DOMAIN us :
        /\ us[id].morale >= InitialMorale - MaxMoraleLoss
        /\ us[id].morale <= InitialMorale + MaxMoraleGain

\* One call apply_event(db, ev); r is its outcome.
Apply(ev) ==
    \E r \in {apply_event(units, ev)} :
    /\ InWindow(r.units)
    /\ units' = r.units
    /\ panicked' = ~r.ok
    /\ info' = InfoAfter(r.units, ev)

Init ==
    /\ units = << >>
    /\ panicked = FALSE
    /\ info = << >>

\* Each action is apply_event called with one variant of CoreEvent on an
\* instance that has not panicked.
Move ==
    /\ ~panicked
    /\ \E ev \in MoveEvents : Apply(ev)

EndTurn ==
    /\ ~panicked
    /\ \E ev \in EndTurnEvents : Apply(ev)

CreateUnit ==
    /\ ~panicked
    /\ \E ev \in CreateUnitEvents : Apply(ev)

AttackUnit ==
    /\ ~panicked
    /\ \E ev \in AttackUnitEvents : Apply(ev)

ShowUnit ==
    /\ ~panicked
    /\ \E ev \in ShowUnitEvents : Apply(ev)

HideUnit ==
    /\ ~panicked
    /\ \E ev \in HideUnitEvents : Apply(ev)

LoadUnit ==
    /\ ~panicked
    /\ \E ev \in LoadUnitEvents : Apply(ev)

UnloadUnit ==
    /\ ~panicked
    /\ \E ev \in UnloadUnitEvents : Apply(ev)

Next ==
    \/ Move
    \/ EndTurn
    \/ CreateUnit
    \/ AttackUnit
    \/ ShowUnit
    \/ HideUnit
    \/ LoadUnit
    \/ UnloadUnit

Spec == Init /\ [][Next]_vars

\* The behaviours in which apply_event accepts every event: a failed
\* assert!/expect ends the use of the instance, so these are the behaviours
\* of a program that keeps running.  They pass through the same states as
\* the behaviours of Spec do before a failure.
AcceptedNext ==
    \/ Move /\ ~panicked'
    \/ EndTurn /\ ~panicked'
    \/ CreateUnit /\ ~panicked'
    \/ AttackUnit /\ ~panicked'
    \/ ShowUnit /\ ~panicked'
    \/ HideUnit /\ ~panicked'
    \/ LoadUnit /\ ~panicked'
    \/ UnloadUnit /\ ~panicked'

AcceptedSpec == Init /\ [][AcceptedNext]_vars

(* ------------------------------ claims --------------------------------- *)

\* The outcome of applying ev to the current mapping.  A formula that reads
\* an outcome several times binds it once, as \A r \in {After(ev)}.
After(ev) == apply_event(units, ev)

Template(u) == unit_type(u.type_id)

\* C1: after every event apply_event accepts, every unit in the mapping has
\* move_points >= 0, attack_points >= 0 and, when reactive_attack_points is
\* present, reactive_attack_points >= 0.
C1_BudgetsNonNegative ==
    ~panicked =>
        \A id \in DOMAIN units :
            /\ units[id].move_points >= 0
            /\ units[id].attack_points >= 0
            /\ IsSome(units[id].reactive_attack_points) =>
                   Unwrap(units[id].reactive_attack_points) >= 0

\* A unit of a type with positive budgets that has spent all three of them.
C1_Witness ==
    /\ ~panicked
    /\ \E id \in DOMAIN units :
          /\ Template(units[id]).move_points > 0
          /\ Template(units[id]).attack_points > 0
          /\ units[id].move_points = 0
          /\ units[id].attack_points = 0
          /\ units[id].reactive_attack_points = Some(0)

\* C2: an AttackUnit that takes the defender's troop count to <= 0 leaves the
\* defender out of the mapping right after that event, so no unit with troop
\* count <= 0 is ever in the mapping.
C2_DeadDefenderRemoved ==
    /\ \A id \in DOMAIN units : units[id].count > 0
    /\ ~panicked =>
          \A ev \in AttackUnitEvents :
              (/\ ev.defender_id \in DOMAIN units
               /\ units[ev.defender_id].count - ev.killed <= 0)
              => ev.defender_id \notin DOMAIN After(ev).units

\* A defender that an accepted AttackUnit of a present attacker kills.
C2_Witness ==
    /\ ~panicked
    /\ \E ev \in AttackUnitEvents :
          /\ ev.defender_id \in DOMAIN units
          /\ ev.killed > 0
          /\ units[ev.defender_id].count - ev.killed <= 0
          /\ IsSome(ev.attacker_id)
          /\ Unwrap(ev.attacker_id) \in DOMAIN units \ {ev.defender_id}
          /\ After(ev).ok
          /\ ev.defender_id \notin DOMAIN After(ev).units

\* C3: a unit inserted under partial information (by ShowUnit, or by
\* UnloadUnit for an absent passenger) has reactive_attack_points absent and
\* passenger reference absent for as long as it stays in the mapping.
C3_PartialHidesHidden ==
    ~panicked =>
        \A id \in DOMAIN units :
            info[id] = "Partial" =>
                /\ units[id].reactive_attack_points = None
                /\ units[id].passanger_id = None

EndTurnEv(old_id, new_id) == [kind |-> "EndTurn", new_id |-> new_id, old_id |-> old_id]

\* The mapping after EndTurn(outgoing a, incoming b) and then
\* EndTurn(outgoing b, incoming a).
RoundTrip(a, b) ==
    apply_event(apply_event(units, EndTurnEv(a, b)).units, EndTurnEv(b, a)).units

\* C4 as stated: EndTurn(A -> B) then EndTurn(B -> A) leaves every unit owned
\* by A or by B with move_points and attack_points at the template values.
C4_RoundTripRestoresAll ==
    ~panicked =>
        \A a \in PlayerIds, b \in PlayerIds :
            \A after \in {RoundTrip(a, b)} :
                \A id \in DOMAIN units :
                    units[id].player_id \in {a, b} =>
                        /\ after[id].move_points = Template(units[id]).move_points
                        /\ after[id].attack_points = Template(units[id]).attack_points

\* C4 amended: after EndTurn(A -> B) then EndTurn(B -> A) every unit owned by
\* A or by B has the template move_points; units owned by B (the outgoing
\* player of the second event) have attack_points 0, and units owned by A,
\* for A # B, have the template attack_points.
C4_RoundTrip ==
    ~panicked =>
        \A a \in PlayerIds, b \in PlayerIds :
            \A after \in {RoundTrip(a, b)} :
                \A id \in DOMAIN units :
                    units[id].player_id \in {a, b} =>
                        /\ after[id].move_points = Template(units[id]).move_points
                        /\ units[id].player_id = b => after[id].attack_points = 0
                        /\ units[id].player_id # b =>
                               after[id].attack_points = Template(units[id]).attack_points

\* A unit of A that has spent movement and attack points, next to a unit of
\* B, with both budgets of A's unit restored by the round trip.
C4_Witness ==
    /\ ~panicked
    /\ \E i \in DOMAIN units, j \in DOMAIN units :
          LET a == units[i].player_id
              b == units[j].player_id IN
          /\ a # b
          /\ units[i].attack_points < Template(units[i]).attack_points
          /\ units[i].move_points < Template(units[i]).move_points
          /\ RoundTrip(a, b)[i].attack_points = Template(units[i]).attack_points
          /\ RoundTrip(a, b)[i].move_points = Template(units[i]).move_points
          /\ RoundTrip(a, b)[j].attack_points = 0

\* ev applied k times in a row, stopping at the first panic.
RECURSIVE Repeat(_, _, _)
Repeat(us, ev, k) ==
    IF k = 0 THEN Ok(us)
    ELSE LET r == Repeat(us, ev, k - 1) IN
         IF r.ok THEN apply_event(r.units, ev) ELSE r

\* AttackUnit events in Active mode whose attacker is given and in the mapping.
ActiveAttacks ==
    {ev \in AttackUnitEvents :
        /\ ev.mode = "Active"
        /\ IsSome(ev.attacker_id)
        /\ Unwrap(ev.attacker_id) \in DOMAIN units}

\* The attacker of ev is the defender and dies of this very attack.
KillsAttacker(ev) ==
    /\ ev.attacker_id = Some(ev.defender_id)
    /\ ev.defender_id \in DOMAIN units
    /\ units[ev.defender_id].count - ev.killed <= 0

\* One Active attack debits exactly one point and fails below one point.
ActiveDebit(ev) ==
    LET a == Unwrap(ev.attacker_id) IN
    \A r \in {After(ev)} :
    /\ units[a].attack_points < 1 => ~r.ok
    /\ r.ok => /\ a \in DOMAIN r.units
               /\ r.units[a].attack_points = units[a].attack_points - 1

\* After a refresh the attacker completes exactly its template number of
\* Active attacks on a surviving defender; the next one fails.
ExactlyTemplateAttacks(ev) ==
    LET a == Unwrap(ev.attacker_id)
        fresh == refresh_units(units, units[a].player_id)
        n == Template(units[a]).attack_points IN
    (ev.killed = 0 /\ ev.defender_id \in DOMAIN units) =>
        \A r \in {Repeat(fresh, ev, n)} :
            /\ r.ok
            /\ r.units[a].attack_points = 0
            /\ ~apply_event(r.units, ev).ok

\* C5 as stated: an Active AttackUnit with an attacker that is in the mapping
\* debits exactly one attack point and fails when the attacker has fewer
\* than one; a unit of budget n completes exactly n attacks after a refresh.
C5_ActiveDebitAlways ==
    ~panicked =>
        \A ev \in ActiveAttacks : ActiveDebit(ev) /\ ExactlyTemplateAttacks(ev)

\* C5 amended: the same for an attacker that this event does not kill (an
\* attacker that is also the defender and dies of the attack is removed
\* before the debit: nothing is debited and nothing fails).
C5_ActiveDebit ==
    ~panicked =>
        \A ev \in ActiveAttacks :
            /\ ~KillsAttacker(ev) => ActiveDebit(ev)
            /\ ExactlyTemplateAttacks(ev)
            /\ KillsAttacker(ev) =>
                   \A r \in {After(ev)} :
                       r.ok /\ Unwrap(ev.attacker_id) \notin DOMAIN r.units

\* An attacker with its last attack point and another unit to attack: the
\* attack is accepted and leaves 0 points, the same attack again fails.
C5_Witness ==
    /\ ~panicked
    /\ \E ev \in ActiveAttacks :
          LET a == Unwrap(ev.attacker_id) IN
          /\ ev.defender_id \in DOMAIN units \ {a}
          /\ ev.killed = 0
          /\ units[a].attack_points = 1
          /\ After(ev).ok
          /\ After(ev).units[a].attack_points = 0
          /\ ~apply_event(After(ev).units, ev).ok

LoadEv(p, t) == [kind |-> "LoadUnit", passanger_id |-> p, transporter_id |-> t]

\* What C6 says of the passenger and of the transporter's reference, and of
\* the transporter's move_points (unchanged, or 0 when zeroed is set).
Loaded(p, t, zeroed) ==
    \A r \in {After(LoadEv(p, t))} :
    /\ r.ok
    /\ p \in DOMAIN r.units
    /\ r.units[p].pos = units[t].pos
    /\ r.units[p].move_points = 0
    /\ r.units[t].passanger_id = Some(p)
    /\ r.units[t].pos = units[t].pos
    /\ r.units[t].attack_points = units[t].attack_points
    /\ r.units[t].reactive_attack_points = units[t].reactive_attack_points
    /\ r.units[t].move_points = IF zeroed THEN 0 ELSE units[t].move_points

\* C6 as stated: right after LoadUnit(P, T) with both in the mapping, P is at
\* T's position with 0 move_points, T refers to P, P is still in the mapping
\* and T's position and budgets are unchanged.
C6_LoadAny ==
    ~panicked =>
        \A p \in DOMAIN units, t \in DOMAIN units : Loaded(p, t, FALSE)

\* C6 amended: the same when P and T are two units; when P and T are the
\* same unit all of it holds except that the unit's move_points become 0.
C6_Load ==
    ~panicked =>
        \A p \in DOMAIN units, t \in DOMAIN units : Loaded(p, t, p = t)

\* A passenger with movement left, standing elsewhere than a transporter
\* that has movement left too, and loaded by the event.
C6_Witness ==
    /\ ~panicked
    /\ \E p \in DOMAIN units, t \in DOMAIN units :
          /\ p # t
          /\ units[p].pos # units[t].pos
          /\ units[p].move_points > 0
          /\ units[t].move_points > 0
          /\ Loaded(p, t, FALSE)

\* The unit identities C7 lists that ev references and the mapping lacks,
\* the attacker of AttackUnit left aside.
RefsMissing(ev) ==
    CASE ev.kind = "Move" -> ev.unit_id \notin DOMAIN units
      [] ev.kind = "AttackUnit" -> ev.defender_id \notin DOMAIN units
      [] ev.kind = "HideUnit" -> ev.unit_id \notin DOMAIN units
      [] ev.kind = "LoadUnit" ->
            \/ ev.transporter_id \notin DOMAIN units
            \/ ev.passanger_id \notin DOMAIN units
      [] ev.kind = "UnloadUnit" -> ev.transporter_id \notin DOMAIN units
      [] OTHER -> FALSE

\* The given attacker of an AttackUnit is not in the mapping.
AttackerMissing(ev) ==
    /\ ev.kind = "AttackUnit"
    /\ IsSome(ev.attacker_id)
    /\ Unwrap(ev.attacker_id) \notin DOMAIN units

ReferringEvents ==
    MoveEvents \cup AttackUnitEvents \cup HideUnitEvents \cup LoadUnitEvents
        \cup UnloadUnitEvents

\* C7 as stated: an event referencing an identity that is not in the mapping
\* (mover, defender, given attacker, hidden unit, transporter and passenger
\* of LoadUnit, transporter of UnloadUnit) fails fatally.
C7_MissingIdAlwaysFatal ==
    ~panicked =>
        \A ev \in ReferringEvents :
            (RefsMissing(ev) \/ AttackerMissing(ev)) => ~After(ev).ok

\* C7 amended: such an event fails fatally for every listed identity except
\* the attacker of AttackUnit; an AttackUnit whose defender is in the mapping
\* and whose given attacker is not is accepted and does what the same event
\* without an attacker does.
C7_MissingIdFatal ==
    ~panicked =>
        \A ev \in ReferringEvents :
            /\ RefsMissing(ev) => ~After(ev).ok
            /\ (AttackerMissing(ev) /\ ~RefsMissing(ev)) =>
                   \A r \in {After(ev)} :
                       /\ r.ok
                       /\ r.units = After([ev EXCEPT !.attacker_id = None]).units

\* A mapping holding one unit and lacking another: hiding the lacking one
\* fails, an attack of the lacking one on the present one is accepted.
C7_Witness ==
    /\ ~panicked
    /\ \E here \in DOMAIN units, gone \in UnitIds \ DOMAIN units :
          /\ ~After([kind |-> "HideUnit", unit_id |-> gone]).ok
          /\ ~After(LoadEv(gone, here)).ok
          /\ \E ev \in AttackUnitEvents :
                /\ ev.attacker_id = Some(gone)
                /\ ev.defender_id = here
                /\ ev.killed > 0
                /\ After(ev).ok
                /\ After(ev).units[here].count = units[here].count - ev.killed

\* What a unit inserted from unit_info must look like.
Inserted(u, unit_info, full) ==
    LET t == unit_type(unit_info.type_id) IN
    /\ u.move_points = t.move_points
    /\ u.attack_points = t.attack_points
    /\ u.count = t.count
    /\ full => /\ u.reactive_attack_points = Some(t.reactive_attack_points)
               /\ u.passanger_id = unit_info.passanger_id
    /\ ~full => /\ u.reactive_attack_points = None
                /\ u.passanger_id = None

\* C8: CreateUnit and ShowUnit of an identity already in the mapping fail and
\* overwrite nothing; of a fresh identity they insert exactly one unit with
\* the template move_points, attack_points and count, reactive points and
\* passenger reference being present only for CreateUnit.
C8_AddUnit ==
    ~panicked =>
        \A ev \in CreateUnitEvents \cup ShowUnitEvents :
            LET id == ev.unit_info.unit_id IN
            \A r \in {After(ev)} :
            IF id \in DOMAIN units
            THEN ~r.ok /\ r.units = units
            ELSE /\ r.ok
                 /\ DOMAIN r.units = DOMAIN units \cup {id}
                 /\ \A x \in DOMAIN units : r.units[x] = units[x]
                 /\ Inserted(r.units[id], ev.unit_info, ev.kind = "CreateUnit")

\* A mapping with one unit whose budgets are no longer the template's: the
\* same identity is refused, the other identity is inserted beside it.
C8_Witness ==
    /\ ~panicked
    /\ \E x \in DOMAIN units :
          /\ units[x].move_points # Template(units[x]).move_points
          /\ \E ev \in CreateUnitEvents, sh \in ShowUnitEvents :
                /\ ev.unit_info.unit_id = x
                /\ ~After(ev).ok
                /\ sh.unit_info.unit_id \notin DOMAIN units
                /\ IsSome(sh.unit_info.passanger_id)
                /\ After(sh).ok
                /\ DOMAIN After(sh).units = DOMAIN units \cup {sh.unit_info.unit_id}

\* What C9 says of a unit of the incoming player.
Refreshed(before, after) ==
    /\ after.move_points = Template(before).move_points
    /\ after.attack_points = Template(before).attack_points
    /\ IsSome(after.reactive_attack_points) =>
           after.reactive_attack_points = Some(Template(before).reactive_attack_points)
    /\ after.morale = before.morale + 10

\* C9 as stated: after EndTurn, for every pair of player identities, every
\* unit of the incoming player has the template move_points, attack_points
\* and (when present) reactive_attack_points, and 10 more morale.
C9_RefreshAnyPair ==
    ~panicked =>
        \A ev \in EndTurnEvents :
            \A r \in {After(ev)} :
                \A id \in DOMAIN units :
                    units[id].player_id = ev.new_id =>
                        Refreshed(units[id], r.units[id])

\* C9 amended: that holds when the incoming player is not the outgoing one;
\* when both are the same player its units get the template move_points and
\* 10 more morale, attack_points 0 and (when present) reactive_attack_points
\* equal to the template reactive plus the template attack points.
C9_Refresh ==
    ~panicked =>
        \A ev \in EndTurnEvents :
            \A r \in {After(ev)} :
                \A id \in DOMAIN units :
                    units[id].player_id = ev.new_id =>
                        LET u == r.units[id]
                            t == Template(units[id]) IN
                        IF ev.new_id # ev.old_id
                        THEN Refreshed(units[id], u)
                        ELSE /\ u.move_points = t.move_points
                             /\ u.morale = units[id].morale + 10
                             /\ u.attack_points = 0
                             /\ IsSome(u.reactive_attack_points) =>
                                    u.reactive_attack_points =
                                        Some(t.reactive_attack_points + t.attack_points)

\* A unit with every budget below its template, refreshed by the EndTurn of another outgoing player.
C9_Witness ==
    /\ ~panicked
    /\ \E ev \in EndTurnEvents, id \in DOMAIN units :
          /\ ev.new_id # ev.old_id
          /\ units[id].player_id = ev.new_id
          /\ units[id].move_points < Template(units[id]).move_points
          /\ units[id].attack_points < Template(units[id]).attack_points
          /\ units[id].reactive_attack_points = Some(0)
          /\ units[id].morale = InitialMorale
          /\ Template(units[id]).reactive_attack_points > 0
          /\ Refreshed(units[id], After(ev).units[id])
          /\ After(ev).units[id].morale = InitialMorale + 10

\* What C10 says of a unit of the outgoing player.
Converted(before, after) ==
    /\ after.attack_points = 0
    /\ IsSome(before.reactive_attack_points) =>
           after.reactive_attack_points =
               Some(Unwrap(before.reactive_attack_points) + before.attack_points)
    /\ ~IsSome(before.reactive_attack_points) =>
           after = [before EXCEPT !.attack_points = 0]

\* C10 as stated: after EndTurn every unit of the outgoing player has
\* attack_points 0 and, when it tracks them, reactive points raised by its
\* former attack points (a unit that does not track them only gets
\* attack_points 0); units of neither player are unchanged.
C10_ConvertAnyPair ==
    ~panicked =>
        \A ev \in EndTurnEvents :
            \A r \in {After(ev)} :
                \A id \in DOMAIN units :
                    /\ units[id].player_id = ev.old_id =>
                           Converted(units[id], r.units[id])
                    /\ units[id].player_id \notin {ev.old_id, ev.new_id} =>
                           r.units[id] = units[id]

\* C10 amended: that holds when the outgoing player is not the incoming one;
\* when both are the same player its units are refreshed first, so they end
\* with attack_points 0 and (when tracked) reactive points equal to the
\* template reactive plus the template attack points.
C10_Convert ==
    ~panicked =>
        \A ev \in EndTurnEvents :
            \A r \in {After(ev)} :
                \A id \in DOMAIN units :
                    /\ (units[id].player_id = ev.old_id /\ ev.old_id # ev.new_id) =>
                           Converted(units[id], r.units[id])
                    /\ (units[id].player_id = ev.old_id /\ ev.old_id = ev.new_id) =>
                           /\ r.units[id].attack_points = 0
                           /\ IsSome(units[id].reactive_attack_points) =>
                                  r.units[id].reactive_attack_points =
                                      Some(Template(units[id]).reactive_attack_points
                                           + Template(units[id]).attack_points)
                    /\ units[id].player_id \notin {ev.old_id, ev.new_id} =>
                           r.units[id] = units[id]

\* An outgoing player's unit with an unspent attack point folded into its
\* reactive points, beside a unit of neither player that has spent movement.
C10_Witness ==
    /\ ~panicked
    /\ \E ev \in EndTurnEvents, i \in DOMAIN units, j \in DOMAIN units :
          /\ ev.old_id # ev.new_id
          /\ units[i].player_id = ev.old_id
          /\ units[j].player_id \notin {ev.old_id, ev.new_id}
          /\ units[j].move_points < Template(units[j]).move_points
          /\ units[i].attack_points > 0
          /\ units[i].reactive_attack_points = Some(0)
          /\ After(ev).units[i].reactive_attack_points = Some(units[i].attack_points)
          /\ After(ev).units[i].attack_points = 0
          /\ After(ev).units[j] = units[j]

MoveEv(unit_id, dest, cost, mode) ==
    [kind |-> "Move", unit_id |-> unit_id,
     path |-> [destination |-> dest, total_cost |-> cost], mode |-> mode]

\* What the claim says a Move costs.
ClaimedCost(ev) ==
    IF ev.mode = "Fast" THEN ev.path.total_cost ELSE 2 * ev.path.total_cost

\* The example of C11: a unit with 3 move_points standing at (0,0) is moved
\* to (1,0) along a path of cost 2 in Fast mode.
MoveExample ==
    LET u == [NewUnit([unit_id |-> 1, pos |-> <<0, 0>>, player_id |-> 0,
                       type_id |-> "soldier", passanger_id |-> None], "Full")
                 EXCEPT !.move_points = 3] IN
    ApplyMove((1 :> u), MoveEv(1, <<1, 0>>, 2, "Fast"))

\* C11: Move of a unit in the mapping is accepted exactly when the unit's
\* move_points are positive before the deduction and non-negative after it;
\* an accepted Move leaves the unit at the path's destination with
\* move_points lowered by the total cost in Fast mode and by twice the total
\* cost in any other mode (3 move_points, cost 2, Fast: destination, 1 left).
C11_Move ==
    /\ MoveExample.ok
    /\ MoveExample.units[1].pos = <<1, 0>>
    /\ MoveExample.units[1].move_points = 1
    /\ ~panicked =>
          \A ev \in MoveEvents :
              ev.unit_id \in DOMAIN units =>
                  \A r \in {After(ev)} :
                      LET u == units[ev.unit_id] IN
                      /\ r.ok <=> (/\ u.move_points > 0
                                   /\ u.move_points - ClaimedCost(ev) >= 0)
                      /\ r.ok =>
                            /\ r.units[ev.unit_id].pos = ev.path.destination
                            /\ r.units[ev.unit_id].move_points =
                                   u.move_points - ClaimedCost(ev)

\* A unit with 2 move_points that a Hunt move of cost 1 takes elsewhere and
\* leaves with 0 while a Hunt move of cost 2 fails, beside a unit without
\* move_points whose Move of cost 0 fails.
C11_Witness ==
    /\ ~panicked
    /\ \E m \in DOMAIN units, z \in DOMAIN units, dest \in Positions :
          /\ units[m].move_points = 2
          /\ units[m].pos # dest
          /\ After(MoveEv(m, dest, 1, "Hunt")).ok
          /\ After(MoveEv(m, dest, 1, "Hunt")).units[m].pos = dest
          /\ After(MoveEv(m, dest, 1, "Hunt")).units[m].move_points = 0
          /\ After(MoveEv(m, dest, 1, "Fast")).units[m].move_points = 1
          /\ ~After(MoveEv(m, dest, 2, "Hunt")).ok
          /\ units[z].move_points = 0
          /\ ~After(MoveEv(z, dest, 0, "Fast")).ok

\* AttackUnit events in Reactive mode whose defender and given attacker are
\* both in the mapping.
ReactiveAttacks ==
    {ev \in AttackUnitEvents :
        /\ ev.mode = "Reactive"
        /\ IsSome(ev.attacker_id)
        /\ Unwrap(ev.attacker_id) \in DOMAIN units
        /\ ev.defender_id \in DOMAIN units}

\* What C12 says of the attacker a of the Reactive attack ev.
ReactiveDebit(ev) ==
    LET a == Unwrap(ev.attacker_id) IN
    \A r \in {After(ev)} :
        IF IsSome(units[a].reactive_attack_points)
        THEN r.ok => /\ a \in DOMAIN r.units
                     /\ r.units[a].reactive_attack_points =
                            Some(Unwrap(units[a].reactive_attack_points) - 1)
        ELSE /\ r.ok
             /\ a \in DOMAIN r.units
             /\ r.units[a] = units[a]

\* C12 as stated: an accepted Reactive AttackUnit debits exactly one reactive
\* attack point from an attacker that tracks them; with an attacker that
\* does not track them the event is accepted and leaves every field of the
\* attacker unchanged.
C12_ReactiveDebitAlways ==
    ~panicked => \A ev \in ReactiveAttacks : ReactiveDebit(ev)

\* C12 amended: that holds when the attacker is not the defender.  An
\* attacker that is also the defender is removed without any debit when the
\* attack takes its troop count to 0 or below; otherwise it takes the
\* defender's losses and, when it tracks reactive points, the debit of one.
C12_ReactiveDebit ==
    ~panicked =>
        \A ev \in ReactiveAttacks :
            LET a == Unwrap(ev.attacker_id) IN
            IF a # ev.defender_id
            THEN ReactiveDebit(ev)
            ELSE \A r \in {After(ev)} :
                 IF units[a].count - ev.killed <= 0
                 THEN r.ok /\ a \notin DOMAIN r.units
                 ELSE LET hit == [units[a] EXCEPT
                                     !.count = @ - ev.killed,
                                     !.morale = @ - ev.suppression,
                                     !.move_points =
                                         IF ev.remove_move_points THEN 0 ELSE @] IN
                      IF IsSome(units[a].reactive_attack_points)
                      THEN r.ok =>
                              r.units[a] =
                                  [hit EXCEPT !.reactive_attack_points =
                                                  Some(Unwrap(@) - 1)]
                      ELSE r.ok /\ r.units[a] = hit

\* A unit that tracks reactive points and has one left, beside a unit added
\* under partial information: a Reactive attack of the first on the second
\* leaves it 0 reactive points, a Reactive attack of the second on the first
\* is accepted and leaves the second as it was.
C12_Witness ==
    /\ ~panicked
    /\ \E f \in DOMAIN units, p \in DOMAIN units :
          /\ f # p
          /\ info[p] = "Partial"
          /\ units[p].reactive_attack_points = None
          /\ units[f].reactive_attack_points = Some(1)
          /\ \E ev \in ReactiveAttacks :
                /\ ev.attacker_id = Some(f)
                /\ ev.defender_id = p
                /\ After(ev).ok
                /\ After(ev).units[f].reactive_attack_points = Some(0)
          /\ \E ev \in ReactiveAttacks :
                /\ ev.attacker_id = Some(p)
                /\ ev.defender_id = f
                /\ ev.killed > 0
                /\ After(ev).ok
                /\ After(ev).units[p] = units[p]

\* C13: an AttackUnit on a defender in the mapping that survives it leaves
\* the defender with its troop count lowered by killed, its morale lowered by
\* suppression and its move_points 0 when remove_move_points is set and
\* unchanged otherwise (a defender whose count reaches 0 or less is removed);
\* without an attacker identity the event is accepted and no unit other than
\* the defender is changed, added or removed.
C13_DefenderLosses ==
    ~panicked =>
        \A ev \in AttackUnitEvents :
            ev.defender_id \in DOMAIN units =>
                LET d == ev.defender_id IN
                \A r \in {After(ev)} :
                    /\ IF units[d].count - ev.killed <= 0
                       THEN d \notin DOMAIN r.units
                       ELSE /\ d \in DOMAIN r.units
                            /\ r.units[d].count = units[d].count - ev.killed
                            /\ r.units[d].morale = units[d].morale - ev.suppression
                            /\ r.units[d].move_points =
                                   IF ev.remove_move_points THEN 0
                                   ELSE units[d].move_points
                    /\ ev.attacker_id = None =>
                          /\ r.ok
                          /\ DOMAIN r.units \ {d} = DOMAIN units \ {d}
                          /\ \A x \in DOMAIN units \ {d} : r.units[x] = units[x]

\* A defender with troops and move_points to lose, beside another unit: an
\* attack without attacker takes one troop, 10 morale and the move_points,
\* the same attack without the flag leaves the move_points, and the other
\* unit is as it was.
C13_Witness ==
    /\ ~panicked
    /\ \E d \in DOMAIN units, x \in DOMAIN units :
          /\ x # d
          /\ units[d].count > 1
          /\ units[d].move_points > 0
          /\ \E ev \in AttackUnitEvents :
                /\ ev.defender_id = d
                /\ ev.attacker_id = None
                /\ ev.killed = 1
                /\ ev.suppression = 10
                /\ ev.remove_move_points
                /\ After(ev).ok
                /\ After(ev).units[d].count = units[d].count - 1
                /\ After(ev).units[d].morale = units[d].morale - 10
                /\ After(ev).units[d].move_points = 0
                /\ After(ev).units[x] = units[x]
                /\ After([ev EXCEPT !.remove_move_points = FALSE]).units[d].move_points
                       = units[d].move_points

UnloadEv(t, unit_info) ==
    [kind |-> "UnloadUnit", transporter_id |-> t, unit_info |-> unit_info]

\* What UnloadUnit(t, unit_info) must yield from the mapping us, t being in
\* it: t's passenger reference is cleared; a unit of unit_info's identity
\* that is in us only changes position; one that is not is inserted under
\* partial information at unit_info's position; nothing else changes.
Unloaded(us, t, unit_info, r) ==
    LET id == unit_info.unit_id IN
    /\ r.ok
    /\ r.units[t].passanger_id = None
    /\ \A x \in DOMAIN us \ {id} :
          r.units[x] = [us[x] EXCEPT !.passanger_id = IF x = t THEN None ELSE @]
    /\ IF id \in DOMAIN us
       THEN /\ DOMAIN r.units = DOMAIN us
            /\ r.units[id] =
                   [us[id] EXCEPT !.pos = unit_info.pos,
                                  !.passanger_id = IF id = t THEN None ELSE @]
       ELSE /\ DOMAIN r.units = DOMAIN us \cup {id}
            /\ r.units[id].pos = unit_info.pos
            /\ r.units[id].player_id = unit_info.player_id
            /\ r.units[id].type_id = unit_info.type_id
            /\ Inserted(r.units[id], unit_info, FALSE)

\* C14: UnloadUnit(T, unit info) with T in the mapping clears T's passenger
\* reference; a unit of unit info's identity already in the mapping only
\* changes position (budgets, morale, count and the presence of its reactive
\* points stay) and no unit is added; otherwise exactly one new
\* partial-information unit with that identity is inserted.
C14_Unload ==
    ~panicked =>
        \A ev \in UnloadUnitEvents :
            ev.transporter_id \in DOMAIN units =>
                Unloaded(units, ev.transporter_id, ev.unit_info, After(ev))

\* A transporter referring to a loaded passenger that is in the mapping:
\* unloading it elsewhere moves it, leaves its 0 move_points and clears the
\* reference; had the passenger been hidden before, the same event inserts
\* it as a partial-information unit.
C14_Witness ==
    /\ ~panicked
    /\ \E t \in DOMAIN units, p \in DOMAIN units, ev \in UnloadUnitEvents :
          /\ t # p
          /\ units[t].passanger_id = Some(p)
          /\ units[p].pos = units[t].pos
          /\ units[p].move_points = 0
          /\ IsSome(units[p].reactive_attack_points)
          /\ ev.transporter_id = t
          /\ ev.unit_info.unit_id = p
          /\ ev.unit_info.pos # units[p].pos
          /\ After(ev).ok
          /\ After(ev).units[t].passanger_id = None
          /\ After(ev).units[p] = [units[p] EXCEPT !.pos = ev.unit_info.pos]
          /\ \A h \in {After([kind |-> "HideUnit", unit_id |-> p]).units} :
                /\ apply_event(h, ev).ok
                /\ DOMAIN apply_event(h, ev).units = DOMAIN units
                /\ apply_event(h, ev).units[p].reactive_attack_points = None
                /\ apply_event(h, ev).units[t].passanger_id = None

\* Every event but the UnloadUnit events of transporter t.
EventsBesideUnload(t) ==
    MoveEvents \cup EndTurnEvents \cup CreateUnitEvents \cup AttackUnitEvents
        \cup ShowUnitEvents \cup HideUnitEvents \cup LoadUnitEvents
        \cup {ev \in UnloadUnitEvents : ev.transporter_id # t}

\* C15: from LoadUnit(P, T) until the UnloadUnit that clears T's passenger
\* reference, P's move_points are 0 in every state, whatever other events
\* (EndTurn for P's owner included) are applied in between; here for two
\* units P and T and the first such event accepted after the LoadUnit, while
\* P is in the mapping.
C15_LoadedStaysPinned ==
    ~panicked =>
        \A p \in DOMAIN units : \A t \in DOMAIN units \ {p} :
            \A l \in {After(LoadEv(p, t))} :
                l.ok =>
                    /\ l.units[p].move_points = 0
                    /\ \A ev \in EventsBesideUnload(t) :
                          \A r \in {apply_event(l.units, ev)} :
                              (r.ok /\ p \in DOMAIN r.units) =>
                                  r.units[p].move_points = 0

\* C16: Move changes nothing but the moving unit's position and move_points:
\* no identity is added or removed, every other unit is unchanged and so is
\* every other field of the mover; the passenger of a moving transporter
\* keeps its position.
C16_MoveFrame ==
    ~panicked =>
        \A ev \in MoveEvents :
            \A r \in {After(ev)} :
                /\ DOMAIN r.units = DOMAIN units
                /\ \A x \in DOMAIN units :
                      IF x = ev.unit_id
                      THEN [r.units[x] EXCEPT !.pos = units[x].pos,
                                              !.move_points = units[x].move_points]
                               = units[x]
                      ELSE r.units[x] = units[x]

\* A transporter referring to a passenger that stands on its cell: an
\* accepted Move takes the transporter to another cell and the passenger
\* stays where it was loaded.
C16_Witness ==
    /\ ~panicked
    /\ \E t \in DOMAIN units, p \in DOMAIN units, ev \in MoveEvents :
          /\ t # p
          /\ Template(units[t]).is_transporter
          /\ units[t].passanger_id = Some(p)
          /\ units[p].pos = units[t].pos
          /\ units[p].move_points = 0
          /\ ev.unit_id = t
          /\ ev.path.destination # units[t].pos
          /\ ev.path.total_cost > 0
          /\ After(ev).ok
          /\ After(ev).units[t].pos = ev.path.destination
          /\ After(ev).units[t].move_points < units[t].move_points
          /\ After(ev).units[p].pos = units[t].pos

\* C17: in every reachable state each unit's attack_points are at most its
\* type's template attack points, its move_points at most the template
\* move_points and, when present, its reactive_attack_points at most the
\* template reactive plus the template attack points.
C17_BudgetsBounded ==
    \A id \in DOMAIN units :
        /\ units[id].attack_points <= Template(units[id]).attack_points
        /\ units[id].move_points <= Template(units[id]).move_points
        /\ IsSome(units[id].reactive_attack_points) =>
               Unwrap(units[id].reactive_attack_points) <=
                   Template(units[id]).reactive_attack_points
                       + Template(units[id]).attack_points

\* A unit refreshed at least once (its morale is above the initial one)
\* whose unspent attack points were folded into its reactive points, which
\* are at the bound, and which another EndTurn of its player as the outgoing
\* one leaves there.
C17_Witness ==
    /\ ~panicked
    /\ \E id \in DOMAIN units :
          /\ Template(units[id]).attack_points > 0
          /\ units[id].morale > InitialMorale
          /\ units[id].attack_points = 0
          /\ units[id].move_points = Template(units[id]).move_points
          /\ units[id].reactive_attack_points =
                 Some(Template(units[id]).reactive_attack_points
                          + Template(units[id]).attack_points)
          /\ \E ev \in EndTurnEvents :
                /\ ev.old_id = units[id].player_id
                /\ ev.new_id # ev.old_id
                /\ After(ev).units[id].reactive_attack_points =
                       units[id].reactive_attack_points

\* C18: in every state reached without a failure, a passenger reference that
\* is present names a unit that is in the mapping.
C18_PassengerInMapping ==
    ~panicked =>
        \A id \in DOMAIN units :
            IsSome(units[id].passanger_id) =>
                Unwrap(units[id].passanger_id) \in DOMAIN units

AllEvents ==
    MoveEvents \cup EndTurnEvents \cup CreateUnitEvents \cup AttackUnitEvents
        \cup ShowUnitEvents \cup HideUnitEvents \cup LoadUnitEvents
        \cup UnloadUnitEvents

\* What C19 allows the identities `after` of an accepted ev to be, `before`
\* being the identities it was applied to.
IdentityFrame(ev, before, after) ==
    CASE ev.kind \in {"Move", "EndTurn", "LoadUnit"} -> after = before
      [] ev.kind \in {"CreateUnit", "ShowUnit"} ->
            /\ ev.unit_info.unit_id \notin before
            /\ after = before \cup {ev.unit_info.unit_id}
      [] ev.kind = "UnloadUnit" ->
            /\ before \subseteq after
            /\ after \subseteq before \cup {ev.unit_info.unit_id}
      [] ev.kind = "HideUnit" ->
            /\ ev.unit_id \in before
            /\ after = before \ {ev.unit_id}
      [] ev.kind = "AttackUnit" ->
            /\ after \subseteq before
            /\ before \ {ev.defender_id} \subseteq after

\* C19: an accepted Move, EndTurn or LoadUnit neither adds nor removes an
\* identity; CreateUnit and ShowUnit add exactly one; UnloadUnit adds at most
\* one; HideUnit removes exactly one; AttackUnit removes at most one, the
\* defender; so every event changes the number of units by at most one (a
\* failing event by none but for the defender a failing AttackUnit removed).
C19_IdentityFrame ==
    ~panicked =>
        \A ev \in AllEvents :
            \A r \in {After(ev)} :
                LET before == DOMAIN units
                    after == DOMAIN r.units
                    n == Cardinality(after) - Cardinality(before) IN
                /\ r.ok => IdentityFrame(ev, before, after)
                /\ ~r.ok => /\ after \subseteq before
                            /\ before \ after \subseteq
                                   IF ev.kind = "AttackUnit"
                                   THEN {ev.defender_id} ELSE {}
                /\ -1 <= n /\ n <= 1

\* A mapping holding one unit with a single troop and lacking the other:
\* ShowUnit and UnloadUnit of the other add it, HideUnit and a killing attack
\* remove the one, an attack that kills nobody and a Move remove nothing.
C19_Witness ==
    /\ ~panicked
    /\ \E here \in DOMAIN units, gone \in UnitIds \ DOMAIN units :
          /\ units[here].count = 1
          /\ units[here].move_points > 0
          /\ \E ev \in ShowUnitEvents :
                /\ ev.unit_info.unit_id = gone
                /\ After(ev).ok
                /\ DOMAIN After(ev).units = DOMAIN units \cup {gone}
          /\ \E ev \in UnloadUnitEvents :
                /\ ev.transporter_id = here
                /\ ev.unit_info.unit_id = gone
                /\ After(ev).ok
                /\ DOMAIN After(ev).units = DOMAIN units \cup {gone}
          /\ After([kind |-> "HideUnit", unit_id |-> here]).ok
          /\ DOMAIN After([kind |-> "HideUnit", unit_id |-> here]).units
                 = DOMAIN units \ {here}
          /\ \E ev \in AttackUnitEvents :
                /\ ev.defender_id = here
                /\ ev.killed = 1
                /\ After(ev).ok
                /\ DOMAIN After(ev).units = DOMAIN units \ {here}
                /\ DOMAIN After([ev EXCEPT !.killed = 0]).units = DOMAIN units
          /\ \E ev \in MoveEvents :
                /\ ev.unit_id = here
                /\ After(ev).ok
                /\ DOMAIN After(ev).units = DOMAIN units

====
